---------------------------- MODULE Spec2Model ----------------------------
(***************************************************************************)
(* A model of django-etc: the Gravatar template tags                       *)
(* (etc/templatetags/gravatar.py) and the model/form toolbox               *)
(* (etc/toolbox.py).                                                       *)
(*                                                                         *)
(* Every function of the package is called on caller-supplied values and   *)
(* returns or raises.  The state is the import-time environment            *)
(* (which Django the package was imported under, what its model registry   *)
(* holds), the form object the caller owns, and the record of the last     *)
(* call: its operation, its arguments, what it returned or raised, and the *)
(* registry lookups it made.                                               *)
(***************************************************************************)
EXTENDS Integers, Sequences, FiniteSets, TLC

VARIABLES
    framework,   \* which Django generation the package was imported under
    installed,   \* the model registry: the (app, model) pairs it resolves
    missKind,    \* how apps.get_model signals a pair it cannot resolve
    form,        \* the caller's form: field name -> widget attrs
    call         \* the last call: op, args, result, lookups

vars == <<framework, installed, missKind, form, call>>

-----------------------------------------------------------------------------
(* Python values *)

PyNone == [t |-> "None"]

PyStr(s) == [t |-> "str", v |-> s]

User(email, username) == [t |-> "user", email |-> email, username |-> username]

\* bool(x) for None and str
Truthy(x) == IF x.t = "None" THEN FALSE ELSE IF x.t = "str" THEN x.v # "" ELSE TRUE

\* a or b
PyOr(a, b) == IF Truthy(a) THEN a ELSE b

Return(v) == [kind |-> "return", value |-> v]

\* raise exc(template % args): the message is kept as its template and arguments
Raise(exc, why, args) == [kind |-> "raise", exc |-> exc, why |-> why, args |-> args]

NoCall == [op |-> "none", args |-> <<>>, result |-> [kind |-> "none"], lookups |-> <<>>]

-----------------------------------------------------------------------------
(* etc/templatetags/gravatar.py *)

\* The identity strings the tags are called on, and as user fields.
Identities == {"", "a@b.com", "bob", "A@B.com", "b"}

\* hashlib.md5(s.encode()).hexdigest(): the digests of the identities above.
Md5Hex(s) ==
    CASE s = "a@b.com" -> "357a20e8c56e69d6f9734d23ef9517e8"
      [] s = "bob"     -> "9f9d51bc70ef21ca5c14f307980a29d8"
      [] s = "A@B.com" -> "4d6d1b9e508109312ad0ebae66de3ea2"
      [] s = "b"       -> "92eb5ffee6ae2fec3ad71c777531578f"
      [] s = ""        -> "d41d8cd98f00b204e9800998ecf8427e"

Digit(d) ==
    CASE d = 0 -> "0" [] d = 1 -> "1" [] d = 2 -> "2" [] d = 3 -> "3" [] d = 4 -> "4"
      [] d = 5 -> "5" [] d = 6 -> "6" [] d = 7 -> "7" [] d = 8 -> "8" [] d = 9 -> "9"

RECURSIVE NatToStr(_)
NatToStr(n) == IF n < 10 THEN <<Digit(n)>> ELSE NatToStr(n \div 10) \o <<Digit(n % 10)>>

\* str(n) for an int, as a sequence of characters
IntToStr(n) == IF n < 0 THEN <<"-">> \o NatToStr(0 - n) ELSE NatToStr(n)

\* urllib.parse: the characters quote() never escapes
AlwaysSafe ==
    {"A","B","C","D","E","F","G","H","I","J","K","L","M","N","O","P","Q","R","S","T",
     "U","V","W","X","Y","Z","a","b","c","d","e","f","g","h","i","j","k","l","m","n",
     "o","p","q","r","s","t","u","v","w","x","y","z","0","1","2","3","4","5","6","7",
     "8","9","_",".","-","~"}

\* '%XX' of the byte of an ASCII character outside AlwaysSafe
PercentByte(c) ==
    CASE c = " " -> "%20"
      [] c = "&" -> "%26"
      [] c = "/" -> "%2F"
      [] c = "=" -> "%3D"

\* quote_plus on one character: safe characters stay, ' ' becomes '+'
QuotePlusChar(c) ==
    IF c \in AlwaysSafe THEN c ELSE IF c = " " THEN "+" ELSE PercentByte(c)

RECURSIVE QuotePlus(_)
QuotePlus(s) == IF s = <<>> THEN "" ELSE QuotePlusChar(Head(s)) \o QuotePlus(Tail(s))

\* parse.urlencode of a dict given as its items in insertion order:
\* 'k=v' joined by '&', keys and str(values) through quote_plus
RECURSIVE UrlEncode(_)
UrlEncode(items) ==
    IF items = <<>> THEN ""
    ELSE QuotePlus(items[1][1]) \o "=" \o QuotePlus(items[1][2])
         \o (IF Len(items) > 1 THEN "&" \o UrlEncode(Tail(items)) ELSE "")

\* isinstance(obj, USER_MODEL)
IsUser(obj) == obj.t = "user"

get_gravatar_url_swapped(obj, size, default) ==
    LET email == IF IsUser(obj) THEN PyOr(obj.email, obj.username) ELSE obj
    IN  IF Truthy(email)
        THEN "http://www.gravatar.com/avatar/" \o Md5Hex(email.v) \o "/?"
             \o UrlEncode(<< <<<<"d">>, default>>, <<<<"s","i","z","e">>, IntToStr(size)>> >>)
        ELSE ""

get_gravatar_url_username_first(obj, size, default) ==
    LET email == IF IsUser(obj) THEN PyOr(obj.username, obj.email) ELSE obj
    IN  IF Truthy(email)
        THEN "http://www.gravatar.com/avatar/" \o Md5Hex(email.v) \o "/?"
             \o UrlEncode(<< <<<<"s","i","z","e">>, IntToStr(size)>>, <<<<"d">>, default>> >>)
        ELSE ""

get_gravatar_url(obj, size, default) ==
    LET email == IF IsUser(obj) THEN PyOr(obj.email, obj.username) ELSE obj
    IN  IF Truthy(email)
        THEN "http://www.gravatar.com/avatar/" \o Md5Hex(email.v) \o "/?"
             \o UrlEncode(<< <<<<"s","i","z","e">>, IntToStr(size)>>, <<<<"d">>, default>> >>)
        ELSE ""

gravatar_get_url(obj, size, default) == get_gravatar_url(obj, size, default)

gravatar_get_img_always(obj, size, default) ==
    "<img src=\"" \o get_gravatar_url(obj, size, default) \o "\" class=\"gravatar\">"

gravatar_get_img(obj, size, default) ==
    LET url == get_gravatar_url(obj, size, default)
    IN  IF url # "" THEN "<img src=\"" \o url \o "\" class=\"gravatar\">" ELSE ""

-----------------------------------------------------------------------------
(* etc/toolbox.py: choices_list, get_choices *)

\* An OrderedDict: its keys in insertion order, and the key -> value mapping.
EmptyOrderedDict == [keys |-> <<>>, map |-> <<>>]

\* od[k] = v: a new key goes last, a key already there keeps its place
OrderedDictSet(od, k, v) ==
    IF k \in DOMAIN od.map
    THEN [keys |-> od.keys, map |-> [x \in DOMAIN od.map |-> IF x = k THEN v ELSE od.map[x]]]
    ELSE [keys |-> Append(od.keys, k), map |-> (k :> v) @@ od.map]

\* OrderedDict(pairs): the pairs are set one after the other
RECURSIVE OrderedDictFrom(_, _)
OrderedDictFrom(od, pairs) ==
    IF pairs = <<>> THEN od
    ELSE OrderedDictFrom(OrderedDictSet(od, pairs[1][1], pairs[1][2]), Tail(pairs))

choices_list_first_wins(choices) ==
    LET RECURSIVE Build(_, _)
        Build(od, pairs) ==
            IF pairs = <<>> THEN od
            ELSE Build(IF pairs[1][1] \in DOMAIN od.map THEN od
                       ELSE OrderedDictSet(od, pairs[1][1], pairs[1][2]), Tail(pairs))
    IN  Build(EmptyOrderedDict, choices)

choices_list(choices) == OrderedDictFrom(EmptyOrderedDict, choices)

get_choices_reversed(od) ==
    [i \in 1..Len(od.keys) |->
        <<od.keys[Len(od.keys) + 1 - i], od.map[od.keys[Len(od.keys) + 1 - i]]>>]

\* tuple((key, val) for key, val in choices_list.items())
get_choices(od) == [i \in 1..Len(od.keys) |-> <<od.keys[i], od.map[od.keys[i]]>>]

\* od[key]
OrderedDictGetItem(od, key) ==
    IF key \in DOMAIN od.map THEN Return(od.map[key]) ELSE Raise("KeyError", "key", <<key>>)

-----------------------------------------------------------------------------
(* etc/toolbox.py: set_form_widgets_attrs *)

\* {**base, **extra}
DictUpdate(base, extra) ==
    [n \in DOMAIN base \cup DOMAIN extra |-> IF n \in DOMAIN extra THEN extra[n] ELSE base[n]]

\* hasattr(val, '__call__')
IsCallable(val) == val.t = "fn"

\* val(field) for the callables the callers pass
CallOn(val, field) ==
    CASE val.f = "label" -> PyStr(field.label)
      [] val.f = "help"  -> PyStr(field.help_text)

\* field.widget.build_attrs(attrs_), called with one positional argument.
\* Django < 1.11 declares build_attrs(self, extra_attrs=None, **kwargs) and returns
\* self.attrs updated with extra_attrs; Django >= 1.11 declares
\* build_attrs(self, base_attrs, extra_attrs=None) and returns base_attrs updated
\* with extra_attrs, self.attrs not being read.
build_attrs(widget_attrs, attrs_) ==
    IF framework = "django_1_11" THEN attrs_ ELSE DictUpdate(widget_attrs, attrs_)

\* the body of the loop over form.fields.items(), for one field
FieldAttrs(field, attrs) ==
    LET attrs_ == [n \in DOMAIN attrs |->
                      IF IsCallable(attrs[n]) THEN CallOn(attrs[n], field) ELSE attrs[n]]
    IN  build_attrs(field.widget_attrs, attrs_)

set_form_widgets_attrs(fm, attrs) ==
    [name \in DOMAIN fm |-> [fm[name] EXCEPT !.widget_attrs = FieldAttrs(fm[name], attrs)]]

-----------------------------------------------------------------------------
(* etc/toolbox.py: get_model_class_from_string, get_model_class_from_settings *)

\* apps_get_model is None: django.apps could not be imported (Django < 1.7)
apps_get_model_is_None == framework = "django_1_6"

ModelClass(app_name, model_name) == [t |-> "class", app |-> app_name, name |-> model_name]

\* apps.get_model(app_name, model_name): the class, or the signal of a pair that
\* is not installed (LookupError, or what else the caller provides for)
apps_get_model(app_name, model_name) ==
    IF <<app_name, model_name>> \in installed THEN Return(ModelClass(app_name, model_name))
    ELSE IF missKind = "None" THEN Return(PyNone)
    ELSE Raise(missKind, "registry", <<app_name, model_name>>)

\* django.db.models.get_model(app_name, model_name) of Django < 1.7: the class or None
get_model(app_name, model_name) ==
    IF <<app_name, model_name>> \in installed THEN Return(ModelClass(app_name, model_name))
    ELSE Return(PyNone)

\* str.split('.')
RECURSIVE SplitDot(_)
SplitDot(s) ==
    IF s = <<>> THEN << <<>> >>
    ELSE LET rest == SplitDot(Tail(s))
         IN  IF Head(s) = "." THEN << <<>> >> \o rest
             ELSE << <<Head(s)>> \o rest[1] >> \o Tail(rest)

LookupModelCatchingLookupErrorOnly(app_name, model_name) ==
    IF apps_get_model_is_None
    THEN get_model(app_name, model_name)
    ELSE LET got == apps_get_model(app_name, model_name)
         IN  IF got.kind = "raise" /\ got.exc \in {"LookupError"}
             THEN Return(PyNone)
             ELSE got

\* the registry branch: get_model when apps_get_model is None, else apps_get_model
\* with LookupError and ValueError turned into model = None
LookupModel(app_name, model_name) ==
    IF apps_get_model_is_None
    THEN get_model(app_name, model_name)
    ELSE LET got == apps_get_model(app_name, model_name)
         IN  IF got.kind = "raise" /\ got.exc \in {"LookupError", "ValueError"}
             THEN Return(PyNone)
             ELSE got

get_model_class_from_string_unchecked(model_path) ==
    LET parts == SplitDot(model_path)
    IN  IF Len(parts) # 2
        THEN [result  |-> Raise("ImproperlyConfigured", "format", <<model_path>>),
              lookups |-> <<>>]
        ELSE [result  |-> LookupModel(parts[1], parts[2]),
              lookups |-> << <<parts[1], parts[2]>> >>]

\* [result, lookups]: what the call returns or raises, and the registry lookups made
get_model_class_from_string(model_path) ==
    LET parts == SplitDot(model_path)
    IN  IF Len(parts) # 2
        THEN [result  |-> Raise("ImproperlyConfigured", "format", <<model_path>>),
              lookups |-> <<>>]
        ELSE LET app_name   == parts[1]
                 model_name == parts[2]
                 model      == LookupModel(app_name, model_name)
             IN  [result  |-> IF model.kind = "raise" THEN model
                              ELSE IF model.value = PyNone
                              THEN Raise("ImproperlyConfigured", "not_installed",
                                         <<model_path, model_name>>)
                              ELSE Return(model.value),
                  lookups |-> << <<app_name, model_name>> >>]

\* getattr(settings_module, settings_entry_name), without a default
Getattr(settings_module, name) ==
    IF name \in DOMAIN settings_module THEN Return(settings_module[name])
    ELSE Raise("AttributeError", "attribute", <<name>>)

get_model_class_from_settings_lenient(settings_module, settings_entry_name) ==
    LET value == Getattr(settings_module, settings_entry_name)
    IN  IF value.kind = "raise" THEN get_model_class_from_string(<<>>)
        ELSE get_model_class_from_string(value.value)

get_model_class_from_settings(settings_module, settings_entry_name) ==
    LET value == Getattr(settings_module, settings_entry_name)
    IN  IF value.kind = "raise" THEN [result |-> value, lookups |-> <<>>]
        ELSE get_model_class_from_string(value.value)

-----------------------------------------------------------------------------
(* Inputs of the gravatar tags *)

MaxDefaultLen == 2

DefaultChars == {"m", " ", "&", "/"}

RECURSIVE SeqsUpTo(_, _)
SeqsUpTo(S, n) ==
    IF n = 0 THEN {<<>>}
    ELSE LET shorter == SeqsUpTo(S, n - 1)
         IN  shorter \cup {Append(s, c) : s \in shorter, c \in S}

Identicon == <<"i","d","e","n","t","i","c","o","n">>

Defaults == {Identicon} \cup SeqsUpTo(DefaultChars, MaxDefaultLen)

Sizes == {-5, 1, 65, 128}

UserFields == {PyNone} \cup {PyStr(s) : s \in {"", "a@b.com", "bob"}}

Users == {User(e, u) : e \in UserFields, u \in UserFields}

Objs == {PyNone} \cup {PyStr(s) : s \in Identities} \cup Users

Idle == call = NoCall

GravatarGetUrl ==
    /\ Idle
    /\ \E obj \in Objs, size \in Sizes, default \in Defaults :
          call' = [op |-> "gravatar_get_url", args |-> <<obj, size, default>>,
                   result |-> Return(gravatar_get_url(obj, size, default)),
                   lookups |-> <<>>]
    /\ UNCHANGED <<framework, installed, missKind, form>>

GravatarGetImg ==
    /\ Idle
    /\ \E obj \in Objs, size \in Sizes, default \in Defaults :
          call' = [op |-> "gravatar_get_img", args |-> <<obj, size, default>>,
                   result |-> Return(gravatar_get_img(obj, size, default)),
                   lookups |-> <<>>]
    /\ UNCHANGED <<framework, installed, missKind, form>>

\* The caller takes the result (or the exception) of the last call.
Finish ==
    /\ ~Idle
    /\ call' = NoCall
    /\ UNCHANGED <<framework, installed, missKind, form>>

-----------------------------------------------------------------------------
(* Inputs of choices_list and get_choices *)

MaxPairs == 3

Keys == {1, 2, 3}

Labels == {"One", "Two"}

PairSeqs == SeqsUpTo(Keys \X Labels, MaxPairs)

ChoicesList ==
    /\ Idle
    /\ \E pairs \in PairSeqs :
          call' = [op |-> "choices_list", args |-> <<pairs>>,
                   result |-> Return(choices_list(pairs)), lookups |-> <<>>]
    /\ UNCHANGED <<framework, installed, missKind, form>>

\* get_choices(TYPES) for TYPES = choices_list(*pairs)
GetChoices ==
    /\ Idle
    /\ \E pairs \in PairSeqs :
          call' = [op |-> "get_choices", args |-> <<pairs>>,
                   result |-> Return(get_choices(choices_list(pairs))), lookups |-> <<>>]
    /\ UNCHANGED <<framework, installed, missKind, form>>

\* TYPES[key] for TYPES = choices_list(*pairs)
ChoicesGetItem ==
    /\ Idle
    /\ \E pairs \in PairSeqs, key \in Keys :
          call' = [op |-> "getitem", args |-> <<pairs, key>>,
                   result |-> OrderedDictGetItem(choices_list(pairs), key),
                   lookups |-> <<>>]
    /\ UNCHANGED <<framework, installed, missKind, form>>

-----------------------------------------------------------------------------
(* Inputs of set_form_widgets_attrs *)

FieldNames == {"f1", "f2"}

Label(name) == IF name = "f1" THEN "L1" ELSE "L2"

\* dicts with keys among names and values among values
Dicts(names, values) == UNION {[d -> values] : d \in SUBSET names}

\* the attributes widgets are constructed with
InitialWidgetAttrs == Dicts({"id", "class"}, {PyStr("w")})

Field(name, widget_attrs) ==
    [label |-> Label(name), help_text |-> "", widget_attrs |-> widget_attrs]

Forms == {[name \in FieldNames |-> Field(name, w[name])] :
             w \in [FieldNames -> InitialWidgetAttrs]}

AttrValues == {PyStr("x"), PyStr("y"), [t |-> "fn", f |-> "label"], [t |-> "fn", f |-> "help"]}

AttrSpecs == Dicts({"class", "data-n"}, AttrValues)

SetFormWidgetsAttrs ==
    /\ Idle
    /\ \E attrs \in AttrSpecs :
          /\ form' = set_form_widgets_attrs(form, attrs)
          /\ call' = [op |-> "set_form_widgets_attrs", args |-> <<form, attrs>>,
                      result |-> Return(PyNone), lookups |-> <<>>]
    /\ UNCHANGED <<framework, installed, missKind>>

-----------------------------------------------------------------------------
(* Inputs of get_model_class_from_string and get_model_class_from_settings *)

MaxPathLen == 5

PathChars == {"a", "b", "."}

Paths == SeqsUpTo(PathChars, MaxPathLen)

\* the (app, model) pairs a registry may hold: app labels and model names are
\* non-empty and hold no dot
InstallablePairs == { << <<"a">>, <<"b">> >>, << <<"b">>, <<"a", "b">> >> }

\* the Django generations the package imports under: before 1.7 (no django.apps),
\* 1.7 to 1.10, and 1.11 on (Widget.build_attrs takes base_attrs first)
Frameworks == {"django_1_6", "django_1_10", "django_1_11"}

SettingsModules == {<<>>} \cup {[n \in {"MY_MODEL"} |-> p] : p \in Paths}

EntryNames == {"MY_MODEL", "OTHER_MODEL"}

GetModelClassFromString ==
    /\ Idle
    /\ \E model_path \in Paths :
          LET done == get_model_class_from_string(model_path)
          IN  call' = [op |-> "get_model_class_from_string", args |-> <<model_path>>,
                       result |-> done.result, lookups |-> done.lookups]
    /\ UNCHANGED <<framework, installed, missKind, form>>

GetModelClassFromSettings ==
    /\ Idle
    /\ \E settings_module \in SettingsModules, name \in EntryNames :
          LET done == get_model_class_from_settings(settings_module, name)
          IN  call' = [op |-> "get_model_class_from_settings",
                       args |-> <<settings_module, name>>,
                       result |-> done.result, lookups |-> done.lookups]
    /\ UNCHANGED <<framework, installed, missKind, form>>

-----------------------------------------------------------------------------
(* Specifications.  The two components share no state, and of the toolbox only *)
(* the resolver reads the registry and only set_form_widgets_attrs writes the   *)
(* form, so each group of operations is specified with the state it touches.    *)

\* Import of etc.toolbox: django.apps imports from Django 1.7 on.  Each registry
\* answers a pair it does not hold in the ways the resolver provides for on that
\* branch: apps.get_model by LookupError, ValueError or None, get_model by None.
InitEnv ==
    /\ framework \in Frameworks
    /\ installed \in SUBSET InstallablePairs
    /\ missKind \in {"LookupError", "ValueError", "None"}
    /\ framework = "django_1_6" => missKind = "None"

InitResolver ==
    /\ InitEnv
    /\ form = <<>>
    /\ call = NoCall

NextResolver == GetModelClassFromString \/ GetModelClassFromSettings \/ Finish

SpecResolver == InitResolver /\ [][NextResolver]_vars

InitPure ==
    /\ framework = "django_1_11"
    /\ installed = {}
    /\ missKind = "LookupError"
    /\ form = <<>>
    /\ call = NoCall

NextGravatar == GravatarGetUrl \/ GravatarGetImg \/ Finish

SpecGravatar == InitPure /\ [][NextGravatar]_vars

NextChoices == ChoicesList \/ GetChoices \/ ChoicesGetItem \/ Finish

SpecChoices == InitPure /\ [][NextChoices]_vars

InitForm ==
    /\ framework \in Frameworks
    /\ installed = {}
    /\ missKind = "None"
    /\ form \in Forms
    /\ call = NoCall

NextForm == SetFormWidgetsAttrs \/ Finish

SpecForm == InitForm /\ [][NextForm]_vars

-----------------------------------------------------------------------------
(* Properties of the gravatar tags, under SpecGravatar *)

\* the URL the avatar service expects for an identity string
ExpectedUrl(identity, size, default) ==
    "http://www.gravatar.com/avatar/" \o Md5Hex(identity) \o "/?"
    \o "size=" \o QuotePlus(IntToStr(size)) \o "&d=" \o QuotePlus(default)

\* C1: called on '' or None the URL tag returns ''; called on a non-empty string
\* it returns 'http://www.gravatar.com/avatar/' + md5hex(identity) + '/?' + the
\* query 'size=<size>&d=<default>' (size first, both percent-encoded), with a
\* 32-character digest.
C1_UrlOfIdentity ==
    call.op = "gravatar_get_url" /\ ~IsUser(call.args[1]) =>
        LET identity == call.args[1]
            size     == call.args[2]
            default  == call.args[3]
        IN  /\ identity = PyNone \/ identity = PyStr("") => call.result = Return("")
            /\ identity.t = "str" /\ identity # PyStr("") =>
                  /\ call.result = Return(ExpectedUrl(identity.v, size, default))
                  /\ Len(Md5Hex(identity.v)) = 32
            /\ call.args = <<PyStr("a@b.com"), 65, Identicon>> =>
                  call.result = Return("http://www.gravatar.com/avatar/357a20e8c56e69d6f9734d23ef9517e8/?size=65&d=identicon")
            /\ call.args = <<PyStr("bob"), 128, <<"&", " ">> >> =>
                  call.result = Return("http://www.gravatar.com/avatar/9f9d51bc70ef21ca5c14f307980a29d8/?size=128&d=%26+")

C1_Witness ==
    /\ call.op = "gravatar_get_url"
    /\ call.args = <<PyStr("bob"), 128, <<"&", " ">> >>
    /\ call.result.value # ""

\* C2: the image tag returns '' exactly when the URL tag returns '' on the same
\* arguments, and otherwise '<img src="' + that URL + '" class="gravatar">'.
C2_ImgWrapsUrl ==
    call.op = "gravatar_get_img" =>
        LET url == gravatar_get_url(call.args[1], call.args[2], call.args[3])
        IN  /\ call.result.kind = "return"
            /\ call.result.value = "" <=> url = ""
            /\ url # "" =>
                  call.result.value = "<img src=\"" \o url \o "\" class=\"gravatar\">"

C2_Witness ==
    /\ call.op = "gravatar_get_img"
    /\ call.args = <<User(PyStr("a@b.com"), PyStr("bob")), 65, Identicon>>
    /\ call.result = Return("<img src=\"http://www.gravatar.com/avatar/357a20e8c56e69d6f9734d23ef9517e8/?size=65&d=identicon\" class=\"gravatar\">")

\* C3: for a user object the identity hashed is its email when that is non-empty,
\* else its username, and the result is '' when both are empty; the URL is the
\* one the raw identity string yields.
C3_UserIdentity ==
    call.op \in {"gravatar_get_url", "gravatar_get_img"} /\ IsUser(call.args[1]) =>
        LET user     == call.args[1]
            size     == call.args[2]
            default  == call.args[3]
            url      == IF call.op = "gravatar_get_url" THEN call.result.value
                        ELSE gravatar_get_url(user, size, default)
            identity == IF user.email.t = "str" /\ user.email.v # "" THEN user.email
                        ELSE user.username
        IN  IF identity.t = "str" /\ identity.v # ""
            THEN /\ url = ExpectedUrl(identity.v, size, default)
                 /\ url = gravatar_get_url(identity, size, default)
            ELSE url = ""

C3_Witness ==
    /\ call.op = "gravatar_get_url"
    /\ call.args[1] = User(PyStr(""), PyStr("bob"))
    /\ call.result = Return(ExpectedUrl("bob", call.args[2], call.args[3]))

-----------------------------------------------------------------------------
(* Properties of set_form_widgets_attrs, under SpecForm *)

\* the value the claim gives attribute name of a field
ExpectedAttr(field, val) ==
    IF val.t = "fn"
    THEN (IF val.f = "label" THEN PyStr(field.label) ELSE PyStr(field.help_text))
    ELSE val

\* after the call every field's widget maps every name of attrs to its value
AttrsApplied ==
    call.op = "set_form_widgets_attrs" =>
        LET before == call.args[1]
            attrs  == call.args[2]
        IN  \A f \in DOMAIN before : \A n \in DOMAIN attrs :
               /\ n \in DOMAIN form[f].widget_attrs
               /\ form[f].widget_attrs[n] = ExpectedAttr(before[f], attrs[n])

\* after the call every attribute a widget held under a name not in attrs is kept
AttrsKept ==
    call.op = "set_form_widgets_attrs" =>
        LET before == call.args[1]
            attrs  == call.args[2]
        IN  \A f \in DOMAIN before : \A n \in DOMAIN before[f].widget_attrs \ DOMAIN attrs :
               /\ n \in DOMAIN form[f].widget_attrs
               /\ form[f].widget_attrs[n] = before[f].widget_attrs[n]

\* C4: after set_form_widgets_attrs(form, attrs) every field's widget maps each
\* name of attrs to its literal, or to val(field) for a callable, and keeps every
\* attribute it held under another name.
C4_AttrsMerged == AttrsApplied /\ AttrsKept

-----------------------------------------------------------------------------
(* Properties of the model class resolver, under SpecResolver *)

\* exactly one dot, with something on each side of it
WellFormed(path) ==
    \E i \in 2..(Len(path) - 1) :
        /\ path[i] = "."
        /\ \A j \in 1..Len(path) : j # i => path[j] # "."

DotAt(path) == CHOOSE i \in 1..Len(path) : path[i] = "."

AppPart(path) == SubSeq(path, 1, DotAt(path) - 1)

ModelPart(path) == SubSeq(path, DotAt(path) + 1, Len(path))

ConfigurationError(result) ==
    result.kind = "raise" /\ result.exc = "ImproperlyConfigured"

\* C5: a path that does not split on '.' into exactly two non-empty parts makes
\* get_model_class_from_string raise ImproperlyConfigured; no model is returned.
C5_MalformedRejected ==
    call.op = "get_model_class_from_string" /\ ~WellFormed(call.args[1]) =>
        ConfigurationError(call.result)

C5_Witness ==
    /\ call.op = "get_model_class_from_string"
    /\ call.args[1] = <<"a", ".", "b", ".", "a">>
    /\ ConfigurationError(call.result)

C7_ErrorSaysWhy ==
    call.op = "get_model_class_from_string" /\ ConfigurationError(call.result) =>
        /\ ~WellFormed(call.args[1]) => call.result.why = "format" /\ call.lookups = <<>>
        /\ call.result.why = "not_installed" => WellFormed(call.args[1])

\* C9: get_model_class_from_settings on a settings object that has the attribute
\* ends as get_model_class_from_string on the attribute's value does; without the
\* attribute it raises AttributeError and makes no registry lookup.
C9_SettingsDelegates ==
    call.op = "get_model_class_from_settings" =>
        LET settings_module == call.args[1]
            name            == call.args[2]
        IN  IF name \in DOMAIN settings_module
            THEN /\ call.result = get_model_class_from_string(settings_module[name]).result
                 /\ call.lookups = get_model_class_from_string(settings_module[name]).lookups
            ELSE /\ call.result.kind = "raise"
                 /\ call.result.exc = "AttributeError"
                 /\ call.lookups = <<>>

C9_Witness ==
    /\ call.op = "get_model_class_from_settings"
    /\ call.args[2] \notin DOMAIN call.args[1]
    /\ call.result.kind = "raise"
    /\ call.result.exc = "AttributeError"

-----------------------------------------------------------------------------
(* Properties of choices_list and get_choices, under SpecChoices *)

DistinctKeys(pairs) ==
    \A i, j \in 1..Len(pairs) : pairs[i][1] = pairs[j][1] => i = j

KeysOf(pairs) == {pairs[i][1] : i \in 1..Len(pairs)}

FirstIndex(pairs, k) ==
    CHOOSE i \in 1..Len(pairs) :
        pairs[i][1] = k /\ \A j \in 1..(i - 1) : pairs[j][1] # k

LastIndex(pairs, k) ==
    CHOOSE i \in 1..Len(pairs) :
        pairs[i][1] = k /\ \A j \in (i + 1)..Len(pairs) : pairs[j][1] # k

\* C8: for pairs with distinct keys get_choices(choices_list(*pairs)) is the
\* tuple of those pairs in the order given, and choices_list(*pairs)[key] is the
\* label paired with key.
C8_RoundTrip ==
    /\ call.op = "get_choices" /\ DistinctKeys(call.args[1]) =>
          /\ call.result = Return(call.args[1])
          /\ Len(call.result.value) = Len(call.args[1])
    /\ call.op = "getitem" /\ DistinctKeys(call.args[1]) =>
          \A i \in 1..Len(call.args[1]) :
              call.args[1][i][1] = call.args[2] =>
                  call.result = Return(call.args[1][i][2])

C8_Witness ==
    /\ call.op = "get_choices"
    /\ call.args[1] = << <<2, "Two">>, <<1, "One">>, <<3, "One">> >>
    /\ call.result = Return(call.args[1])

\* C10: for any pairs choices_list is accepted and holds each key once, with the
\* label of the key's last occurrence, at the place of its first occurrence; and
\* get_choices lists the keys in that order with those labels.
C10_DuplicateKeys ==
    /\ call.op = "choices_list" =>
          LET pairs == call.args[1]
              od    == call.result.value
          IN  /\ call.result.kind = "return"
              /\ \A i, j \in 1..Len(od.keys) : od.keys[i] = od.keys[j] => i = j
              /\ {od.keys[i] : i \in 1..Len(od.keys)} = KeysOf(pairs)
              /\ DOMAIN od.map = KeysOf(pairs)
              /\ \A k \in KeysOf(pairs) : od.map[k] = pairs[LastIndex(pairs, k)][2]
              /\ \A i, j \in 1..Len(od.keys) :
                    i < j => FirstIndex(pairs, od.keys[i]) < FirstIndex(pairs, od.keys[j])
    /\ call.op = "get_choices" =>
          LET pairs == call.args[1]
              out   == call.result.value
          IN  /\ Len(out) = Cardinality(KeysOf(pairs))
              /\ \A i \in 1..Len(out) : out[i][2] = pairs[LastIndex(pairs, out[i][1])][2]
              /\ \A i, j \in 1..Len(out) :
                    i < j => FirstIndex(pairs, out[i][1]) < FirstIndex(pairs, out[j][1])

C10_Witness ==
    /\ call.op = "choices_list"
    /\ call.args[1] = << <<1, "One">>, <<2, "One">>, <<1, "Two">> >>
    /\ call.result.value.keys = <<1, 2>>
    /\ call.result.value.map[1] = "Two"

=============================================================================
